---- MODULE Spec2Model ----
(***************************************************************************)
(* State-machine model of src/src/App.tsx (Vibe Surfer): the React state   *)
(* of the App component, its refs, the browser's pending timeouts and      *)
(* animation-frame request, and localStorage.                              *)
(*                                                                         *)
(* React semantics the model keeps:                                        *)
(*  - `update`, `endGame`, `activateFlowState` and `draw` are closures of  *)
(*    one render.  The frame-loop effect has the dependency list           *)
(*    [gameState], so the `update` handed to requestAnimationFrame is the  *)
(*    one of the render in which gameState became 'PLAYING', and line 247  *)
(*    re-arms that same function.  Every frame of a run therefore reads    *)
(*    gameState, score, highScore, isFlowState and playerLane as they were *)
(*    in that render (variable `loop`); functional updaters (s => s + 1)   *)
(*    see the current state.                                               *)
(*  - setState calls made in one callback are batched and committed in     *)
(*    one render after the callback returns.                               *)
(*  - an updater passed to setAuraCount is evaluated eagerly at the        *)
(*    dispatch when the component has no pending work (variable `idle`:    *)
(*    its last render changed nothing), and during the next render         *)
(*    otherwise; a setState made inside it is queued before the updater's  *)
(*    own result in the first case and applied after it (render-phase      *)
(*    update) in the second.                                               *)
(*  - effects of a render caused by a click run synchronously with it;     *)
(*    effects of a render caused by a frame callback run later, from the   *)
(*    scheduler (variable `effectDue`).                                    *)
(* Lengths are in thousandths of a pixel so that the fall speed is an      *)
(* integer; times are in milliseconds.                                     *)
(***************************************************************************)
EXTENDS Integers, Sequences, FiniteSets, TLC

\* ---------------------------------------------------------------- bounds
\* frames executed per run (caps speedRef)
MaxFrames == 3
\* frames executed per run in the long-run specification
MaxRunFrames == 11
\* obstacles alive at once (caps obstaclesRef)
MaxObstacles == 2
\* particles counted in particlesRef (saturating)
MaxParticles == 1
\* real time that passes in one Tick, in ms
TickMs == 5000
\* window.innerHeight values the resize handler can install, in px
HeightA == 50
HeightB == 55
\* frames already executed when the falling-obstacle specification starts
FallStart == 48
\* frames already executed when the fast-run specification starts: the speed
\* is just below 90 after SlowStart frames and above 101 after FastStart
SlowStart == 84996
FastStart == 96500

\* ------------------------------------------------------------- constants
Milli == 1000
LANES == 3
LANE_WIDTH == 100
PLAYER_SIZE == 40
OBSTACLE_SIZE == 50
INITIAL_SPEED == 5 * Milli
SPEED_INCREMENT == 1
FLOW_STATE_DURATION == 10000
AURA_THRESHOLD == 10
FLOW_BONUS == 50
SPAWN_Y == -100
PLAYER_OFFSET == 100
DESPAWN_MARGIN == 100
SHAKE_AURA == 100
SHAKE_BLOCK == 150
SHAKE_FLOW == 500
BURST_ACTIVATE == 150
BURST_AURA == 30
BURST_BLOCK == 30

\* number values: NaN is the one value parseInt can return that is not an integer
NaN == -1000000
\* a timer ref that is null, or whose timeout has fired or was cleared
NoTimer == -1

Heights == {HeightA, HeightB}
ObstacleTypes == {"BLOCK", "AURA"}

\* ------------------------------------------------------- localStorage text
\* strings are sequences of characters
DigitChars == <<"0", "1", "2", "3", "4", "5", "6", "7", "8", "9">>
IsDigit(c) == \E i \in 1..10 : DigitChars[i] = c
DigitVal(c) == (CHOOSE i \in 1..10 : DigitChars[i] = c) - 1

RECURSIVE DigitsOf(_)
DigitsOf(n) == IF n < 10 THEN <<DigitChars[n + 1]>>
               ELSE DigitsOf(n \div 10) \o <<DigitChars[(n % 10) + 1]>>

\* Number.prototype.toString of an integer (or NaN)
NumToString(n) == IF n = NaN THEN <<"N", "a", "N">>
               ELSE IF n < 0 THEN <<"-">> \o DigitsOf(-n) ELSE DigitsOf(n)

RECURSIVE SkipSpaces(_)
SkipSpaces(s) == IF s # <<>> /\ Head(s) = " " THEN SkipSpaces(Tail(s)) ELSE s

RECURSIVE DigitPrefix(_, _)
DigitPrefix(s, acc) == IF s # <<>> /\ IsDigit(Head(s))
                       THEN DigitPrefix(Tail(s), acc * 10 + DigitVal(Head(s)))
                       ELSE acc

\* parseInt(s) with no radix, for texts without a 0x prefix: leading
\* blanks, an optional sign, then the longest run of decimal digits.
\* (-0 and 0 are one value here.)
ParseInt(s) ==
  LET t == SkipSpaces(s)
      neg == t # <<>> /\ Head(t) = "-"
      u == IF t # <<>> /\ Head(t) \in {"-", "+"} THEN Tail(t) ELSE t
  IN IF u = <<>> \/ ~IsDigit(Head(u)) THEN NaN
     ELSE IF neg THEN -DigitPrefix(u, 0) ELSE DigitPrefix(u, 0)

\* localStorage.getItem result: has = FALSE is null
NoItem == [has |-> FALSE, text |-> <<>>]
Item(s) == [has |-> TRUE, text |-> s]

\* line 50-53: saved ? parseInt(saved) : 0   (null and "" are falsy)
LoadHighScore(saved) ==
  IF saved.has /\ saved.text # <<>> THEN ParseInt(saved.text) ELSE 0

\* JavaScript a > b on numbers: false when either side is NaN
Gt(a, b) == a # NaN /\ b # NaN /\ a > b

Min(a, b) == IF a < b THEN a ELSE b
Max(a, b) == IF a > b THEN a ELSE b
Abs(a) == IF a < 0 THEN -a ELSE a

\* ------------------------------------------- IEEE-754 doubles (line 163)
\* speedRef.current is a double in [4, 8), where doubles are the multiples
\* of 2^-50 (one unit in the last place).  Fractions of that unit are kept
\* in 1024ths.  The double nearest to 0.001 is (W + 639/1024) * 2^-50 with
\* W = 1125899906842, an even number; W itself never has to be written.
UlpParts == 1024
IncFrac == 639

\* x rounded to the nearest multiple of g, ties to the even multiple
RoundTo(x, g) ==
  LET lo == (x \div g) * g
      r == x - lo
  IN IF 2 * r < g THEN lo
     ELSE IF 2 * r > g THEN lo + g
     ELSE IF (x \div g) % 2 = 0 THEN lo ELSE lo + g

\* spacing of the doubles around n * 0.001, in 1024ths of 2^-50: it is
\* 2^k as soon as n * 0.001 >= 2^(k - 8), and every product is exact below
RECURSIVE ProductUlp(_, _)
ProductUlp(n, g) ==
  IF 2 * g * 1000 <= n * 256 THEN ProductUlp(n, 2 * g) ELSE g

\* rounding error of `double + SPEED_INCREMENT` for a double in [4, 8):
\* the exact sum lies IncFrac past a multiple of 2^-50
AddIncrementErr == RoundTo(IncFrac, UlpParts) - IncFrac

\* speedErr once the speed has reached 8: doubles are spaced wider there and
\* the rounding is not followed
Untracked == -1

\* speedErr after one more addition that makes the nominal speed s
NextErr(err, s) ==
  IF err = Untracked \/ s >= 8 * Milli THEN Untracked
  ELSE err + AddIncrementErr

\* rounding error of the expression INITIAL_SPEED + n * SPEED_INCREMENT:
\* the product is rounded to a double, then the sum is (5 * 2^50 and W are
\* even, so the parity that breaks a tie is that of the fraction's carry)
ClosedFormErr(n) ==
  RoundTo(RoundTo(n * IncFrac, ProductUlp(n, 1)), UlpParts) - n * IncFrac

VARIABLES
  gameState,          \* useState<GameState>
  score,              \* useState(0)
  highScore,          \* useState(() => ...)
  auraCount,          \* useState(0)
  isFlowState,        \* useState(false)
  playerLane,         \* useState(1)
  isShaking,          \* useState(false)
  obstaclesRef,       \* sequence of [lane, y, type]
  particlesRef,       \* number of live particles, saturating at MaxParticles
  speedRef,           \* fall speed, nominal value in thousandths
  speedErr,           \* what the double in speedRef.current is above
                      \* INITIAL_SPEED + n * (the double 0.001), n additions
                      \* having been made, in 1024ths of 2^-50; or Untracked
  flowStateTimerRef,  \* ms left of the timeout the ref designates, or NoTimer
  shakeTimerRef,      \* ms left of the timeout the ref designates, or NoTimer
  strays,             \* pending timeouts no ref designates: set of [cb, rem]
  requestRef,         \* TRUE while the animation-frame request is pending
  loop,               \* render values closed over by the pending `update`
  effectDue,          \* a committed gameState change whose effect has not run
  storage,            \* localStorage item 'vibe-surfer-highscore'
  innerHeight,        \* window.innerHeight = canvas.height, px
  endGameCalls,       \* history: endGame invocations since the run started
  hits,               \* history: collisions and activateFlowState calls of
                      \* the frame just executed
  frames,             \* history: frames executed since the run started
  idle                \* React has no pending work on App: its last render
                      \* bailed out (or it has only been mounted)

vars == <<gameState, score, highScore, auraCount, isFlowState, playerLane,
          isShaking, obstaclesRef, particlesRef, speedRef, flowStateTimerRef,
          shakeTimerRef, strays, requestRef, loop, effectDue, storage,
          innerHeight, endGameCalls, hits, idle, speedErr, frames>>

MENU == "MENU"
PLAYING == "PLAYING"
GAME_OVER == "GAME_OVER"

\* texts found under the key when the page loads
InitialItems == {NoItem, Item(<<"-", "3">>), Item(<<"x">>)}

\* the values one render closes over (lines 48-58) that `update` reads
Closure(gs, sc, hs, fl, ln) ==
  [gameState |-> gs, score |-> sc, highScore |-> hs, isFlowState |-> fl,
   playerLane |-> ln]

\* no frame has just run
NoHits == [aura |-> 0, block |-> 0, acts |-> 0]

Init ==
  /\ gameState = MENU
  /\ score = 0
  /\ storage \in InitialItems
  /\ highScore = LoadHighScore(storage)
  /\ auraCount = 0
  /\ isFlowState = FALSE
  /\ playerLane = 1
  /\ isShaking = FALSE
  /\ obstaclesRef = <<>>
  /\ particlesRef = 0
  /\ speedRef = INITIAL_SPEED
  /\ flowStateTimerRef = NoTimer
  /\ shakeTimerRef = NoTimer
  /\ strays = {}
  /\ requestRef = FALSE
  /\ loop = Closure(MENU, 0, highScore, FALSE, 1)
  /\ effectDue = FALSE
  /\ innerHeight \in Heights
  /\ endGameCalls = 0
  /\ hits = NoHits
  /\ idle = TRUE
  /\ speedErr = 0
  /\ frames = 0

\* ------------------------------------------------- timers (setTimeout)
\* clearTimeout(ref.current) guarded by `if (ref.current)`
ClearTimer(rem) == NoTimer

\* ref.current = setTimeout(cb, d): a timeout still pending under the old
\* handle keeps running with no ref designating it
Orphans(cb, rem) == IF rem # NoTimer THEN {[cb |-> cb, rem |-> rem]} ELSE {}

\* ------------------------------------------- what one frame accumulates
\* kept      obstacles the filter keeps
\* first     no collision has been handled yet in this frame
\* eagerVal  result of an eagerly evaluated setAuraCount updater, or -1
\* deferred  setAuraCount updaters queued for the render
\* flowOn    setIsFlowState(true) was dispatched
\* shakeOn   setIsShaking(true) was dispatched
\* bonus     setScore(s => s + 50) dispatches
\* ends      endGame invocations
\* wrote     endGame stored a new high score
\* parts     particles pushed
\* nAura     Aura collisions
\* nBlock    Block collisions
\* acts      activateFlowState invocations
FrameStart ==
  [kept |-> <<>>, first |-> TRUE, eagerVal |-> -1, deferred |-> 0,
   flowOn |-> FALSE, shakeOn |-> FALSE, flowT |-> flowStateTimerRef,
   shakeT |-> shakeTimerRef, strays |-> strays, bonus |-> 0, ends |-> 0,
   wrote |-> FALSE, parts |-> 0, nAura |-> 0, nBlock |-> 0, acts |-> 0]

\* lines 113-117
triggerShake(c, duration) ==
  LET cleared == IF c.shakeT # NoTimer THEN ClearTimer(c.shakeT) ELSE c.shakeT
  IN [c EXCEPT !.shakeOn = TRUE,
               !.strays = @ \cup Orphans("shake", cleared),
               !.shakeT = duration]

\* lines 131-139, with score and highScore as the closure holds them
endGame(c) ==
  LET cleared == IF c.flowT # NoTimer THEN ClearTimer(c.flowT) ELSE c.flowT
  IN [c EXCEPT !.ends = @ + 1,
               !.wrote = @ \/ Gt(loop.score, loop.highScore),
               !.flowT = cleared]

\* lines 141-154 (setAuraCount(0) is ordered by the caller)
activateFlowState(c) ==
  LET c1 == triggerShake([c EXCEPT !.flowOn = TRUE], SHAKE_FLOW)
      cleared == IF c1.flowT # NoTimer THEN ClearTimer(c1.flowT) ELSE c1.flowT
  IN [c1 EXCEPT !.parts = @ + BURST_ACTIVATE,
                !.acts = @ + 1,
                !.strays = @ \cup Orphans("flow", cleared),
                !.flowT = FLOW_STATE_DURATION]

\* lines 186-192, the updater run at the dispatch: prev is the committed
\* auraCount; the setAuraCount(0) made inside is queued before its result
EagerAura(c) ==
  LET next == auraCount + 1
      c1 == [c EXCEPT !.eagerVal = next]
  IN IF next >= AURA_THRESHOLD /\ ~loop.isFlowState
     THEN activateFlowState(c1) ELSE c1

\* lines 184-208: the collision branch for obstacle o
Collide(o, c, eager) ==
  LET c0 == [c EXCEPT !.first = FALSE,
                      !.nAura = IF o.type = "AURA" THEN @ + 1 ELSE @,
                      !.nBlock = IF o.type = "AURA" THEN @ ELSE @ + 1]
  IN IF o.type = "AURA"
     THEN LET c1 == IF c.first /\ eager THEN EagerAura(c0)
                    ELSE [c0 EXCEPT !.deferred = @ + 1]
          IN triggerShake([c1 EXCEPT !.parts = @ + BURST_AURA], SHAKE_AURA)
     ELSE IF loop.isFlowState
          THEN triggerShake([c0 EXCEPT !.parts = @ + BURST_BLOCK,
                                       !.bonus = @ + 1], SHAKE_BLOCK)
          ELSE endGame(c0)

\* line 178: the playerLane the pending `update` reads
CollisionLane == loop.playerLane

\* lines 177-184 with a vertical reach of half the player's size only
CollidesPlayerOnly(o, h) ==
  LET dx == Abs((o.lane - CollisionLane) * LANE_WIDTH * Milli)
      playerY == (h - PLAYER_OFFSET) * Milli
      dy == Abs(o.y - playerY)
      reach == ((PLAYER_SIZE + OBSTACLE_SIZE) * Milli) \div 2
  IN dx < reach /\ dy < (PLAYER_SIZE * Milli) \div 2

\* lines 177-184: the proximity test, with the closure's playerLane
Collides(o, h) ==
  LET dx == Abs((o.lane - CollisionLane) * LANE_WIDTH * Milli)
      playerY == (h - PLAYER_OFFSET) * Milli
      dy == Abs(o.y - playerY)
      reach == ((PLAYER_SIZE + OBSTACLE_SIZE) * Milli) \div 2
  IN dx < reach /\ dy < reach

\* line 212 without the margin
OnScreenNoMargin(o, h) == o.y < h * Milli

\* line 212: return obs.y < window.innerHeight + 100
OnScreen(o, h) == o.y < (h + DESPAWN_MARGIN) * Milli

\* lines 171-213: the filter over obstaclesRef.current, in list order
RECURSIVE ObstaclePass(_, _, _, _, _)
ObstaclePass(obs, c, speed, h, eager) ==
  IF obs = <<>> THEN c
  ELSE LET o == [Head(obs) EXCEPT !.y = @ + speed]
           c1 == IF Collides(o, h) THEN Collide(o, c, eager)
                 ELSE IF OnScreen(o, h)
                      THEN [c EXCEPT !.kept = Append(@, o)]
                      ELSE c
       IN ObstaclePass(Tail(obs), c1, speed, h, eager)

\* the render after the callback: queued updaters in order (lines 186-192);
\* a setAuraCount(0) made while rendering is applied after all of them
RECURSIVE RenderAura(_, _, _, _)
RenderAura(c, v, k, reset) ==
  IF k = 0 THEN [ctx |-> c, aura |-> IF reset THEN 0 ELSE v]
  ELSE LET next == v + 1
       IN IF next >= AURA_THRESHOLD /\ ~loop.isFlowState
          THEN RenderAura(activateFlowState(c), next, k - 1, TRUE)
          ELSE RenderAura(c, next, k - 1, reset)

\* lines 81-91
Spawned(obs, lane, type) ==
  Append(obs, [lane |-> lane, y |-> SPAWN_Y * Milli, type |-> type])

\* ------------------------------------------------------------- actions
\* line 163 adding the increment twice
NextSpeedTwice(s) == s + 2 * SPEED_INCREMENT

\* line 163: speedRef.current += SPEED_INCREMENT
NextSpeed(s) == s + SPEED_INCREMENT

\* lines 156-248 up to the particle pass, and the render-phase updaters:
\* what the frame leaves in the accumulator, and the committed auraCount
FrameResult(spawn, eager) ==
  LET speed == NextSpeed(speedRef)
      obs == IF spawn.on THEN Spawned(obstaclesRef, spawn.lane, spawn.type)
             ELSE obstaclesRef
      c == ObstaclePass(obs, FrameStart, speed, innerHeight, eager)
      base == IF c.eagerVal # -1 THEN c.eagerVal ELSE auraCount
  IN RenderAura(c, base, c.deferred, FALSE)

\* lines 215-242: the particle pass drops `dead` particles (life <= 0;
\* maxLife is random) and the trail emits one with a probability
ParticlesAfter(pushed) ==
  {Min(MaxParticles, (particlesRef - dead) + pushed + trail) :
     dead \in 0..particlesRef, trail \in {0, 1}}

\* lines 156-248 and the render that commits its setState calls.
\* spawn stands for Math.random; the first updater runs eagerly iff idle.
update(spawn) ==
  \E r \in {FrameResult(spawn, idle)} :
     /\ speedRef' = NextSpeed(speedRef)
     /\ speedErr' = NextErr(speedErr, NextSpeed(speedRef))
     /\ frames' = frames + 1
     /\ obstaclesRef' = r.ctx.kept
     /\ particlesRef' \in ParticlesAfter(r.ctx.parts)
     /\ auraCount' = r.aura
     /\ isFlowState' = (isFlowState \/ r.ctx.flowOn)
     /\ isShaking' = (isShaking \/ r.ctx.shakeOn)
     /\ flowStateTimerRef' = r.ctx.flowT
     /\ shakeTimerRef' = r.ctx.shakeT
     /\ strays' = r.ctx.strays
     /\ score' = score + FLOW_BONUS * r.ctx.bonus + 1
     /\ gameState' = IF r.ctx.ends > 0 THEN GAME_OVER ELSE gameState
     /\ highScore' = IF r.ctx.wrote THEN loop.score ELSE highScore
     /\ storage' = IF r.ctx.wrote THEN Item(NumToString(loop.score))
                   ELSE storage
     /\ endGameCalls' = Min(3, endGameCalls + r.ctx.ends)
     /\ effectDue' = (effectDue \/ gameState' # gameState)
     /\ requestRef' = TRUE
     /\ hits' = [aura |-> r.ctx.nAura, block |-> r.ctx.nBlock,
                 acts |-> r.ctx.acts]
     /\ idle' = FALSE
     /\ UNCHANGED <<playerLane, loop, innerHeight>>

\* Math.random at lines 82-83 and 166: no spawn, or one obstacle
SpawnChoices(lanes) ==
  {[on |-> FALSE, lane |-> 0, type |-> "BLOCK"]}
    \cup (IF Len(obstaclesRef) < MaxObstacles
          THEN {[on |-> TRUE, lane |-> l, type |-> t] :
                   l \in lanes, t \in ObstacleTypes}
          ELSE {})

\* the browser runs the pending animation-frame callback; at most cap
\* frames per run, spawning in the given lanes
FrameOf(cap, lanes) ==
  /\ requestRef
  /\ speedRef < INITIAL_SPEED + cap * SPEED_INCREMENT
  /\ IF loop.gameState # PLAYING
     THEN /\ requestRef' = FALSE
          /\ UNCHANGED <<gameState, score, highScore, auraCount, isFlowState,
                         playerLane, isShaking, obstaclesRef, particlesRef,
                         speedRef, flowStateTimerRef, shakeTimerRef, strays,
                         loop, effectDue, storage, innerHeight, endGameCalls>>
          /\ hits' = NoHits
          /\ UNCHANGED idle
          /\ UNCHANGED <<speedErr, frames>>
     ELSE \E spawn \in SpawnChoices(lanes) : update(spawn)

\* short runs with obstacles in every lane
Frame == FrameOf(MaxFrames, 0..(LANES - 1))

\* long runs with obstacles in the lane the player starts in
FrameRun == FrameOf(MaxRunFrames, {1})

\* startGame without line 123
startGameKeepsFlow ==
  /\ gameState \in {MENU, GAME_OVER}
  /\ gameState' = PLAYING
  /\ score' = 0
  /\ auraCount' = 0
  /\ playerLane' = 1
  /\ speedRef' = INITIAL_SPEED
  /\ speedErr' = 0
  /\ frames' = 0
  /\ obstaclesRef' = <<>>
  /\ particlesRef' = 0
  /\ UNCHANGED <<highScore, isFlowState, isShaking, flowStateTimerRef,
                 shakeTimerRef, strays, storage, innerHeight>>
  /\ hits' = NoHits
  /\ idle' = FALSE
  /\ requestRef' = TRUE
  /\ loop' = Closure(gameState', score', highScore', isFlowState', playerLane')
  /\ effectDue' = FALSE
  /\ endGameCalls' = 0

\* lines 119-129 (onClick, lines 425 and 534), its render, and the
\* frame-loop effect of that render (lines 360-369)
startGame ==
  /\ gameState \in {MENU, GAME_OVER}
  /\ gameState' = PLAYING
  /\ score' = 0
  /\ auraCount' = 0
  /\ isFlowState' = FALSE
  /\ playerLane' = 1
  /\ speedRef' = INITIAL_SPEED
  /\ speedErr' = 0
  /\ frames' = 0
  /\ obstaclesRef' = <<>>
  /\ particlesRef' = 0
  /\ UNCHANGED <<highScore, isShaking, flowStateTimerRef, shakeTimerRef,
                 strays, storage, innerHeight>>
  /\ hits' = NoHits
  /\ idle' = FALSE
  /\ requestRef' = TRUE
  /\ loop' = Closure(gameState', score', highScore', isFlowState', playerLane')
  /\ effectDue' = FALSE
  /\ endGameCalls' = 0

\* line 541 and the effect of its render
BackToMenu ==
  /\ gameState = GAME_OVER
  /\ gameState' = MENU
  /\ requestRef' = FALSE
  /\ effectDue' = FALSE
  /\ UNCHANGED <<score, highScore, auraCount, isFlowState, playerLane,
                 isShaking, obstaclesRef, particlesRef, speedRef,
                 flowStateTimerRef, shakeTimerRef, strays, loop, storage,
                 innerHeight, endGameCalls>>
  /\ hits' = NoHits
  /\ idle' = FALSE
  /\ UNCHANGED <<speedErr, frames>>

\* lines 360-369, run from the scheduler after a frame's render changed
\* gameState: the cleanup of the previous effect, then the else branch
FrameLoopEffect ==
  /\ effectDue
  /\ effectDue' = FALSE
  /\ requestRef' = (gameState = PLAYING)
  /\ UNCHANGED <<gameState, score, highScore, auraCount, isFlowState,
                 playerLane, isShaking, obstaclesRef, particlesRef, speedRef,
                 flowStateTimerRef, shakeTimerRef, strays, loop, storage,
                 innerHeight, endGameCalls>>
  /\ hits' = NoHits
  /\ UNCHANGED idle
  /\ UNCHANGED <<speedErr, frames>>

\* line 374 without Math.max
ShiftLeftUnclamped(l) == l - 1

\* lines 374 and 382
ShiftLeft(l) == Max(0, l - 1)
\* lines 375 and 384
ShiftRight(l) == Min(LANES - 1, l + 1)

LaneOnly ==
  /\ UNCHANGED <<gameState, score, highScore, auraCount, isFlowState,
                 isShaking, obstaclesRef, particlesRef, speedRef,
                 flowStateTimerRef, shakeTimerRef, strays, requestRef, loop,
                 effectDue, storage, innerHeight, endGameCalls>>
  /\ hits' = NoHits
  /\ UNCHANGED <<speedErr, frames>>

\* lines 372-376
handleKeyDown ==
  \E key \in {"ArrowLeft", "ArrowRight", "Space"} :
    /\ playerLane' = IF gameState # PLAYING THEN playerLane
                     ELSE IF key = "ArrowLeft" THEN ShiftLeft(playerLane)
                     ELSE IF key = "ArrowRight" THEN ShiftRight(playerLane)
                     ELSE playerLane
    /\ idle' = IF gameState = PLAYING /\ key # "Space"
               THEN playerLane' = playerLane ELSE idle
    /\ LaneOnly

\* lines 378-386
handleTouchStart ==
  \E leftHalf \in BOOLEAN :
    /\ playerLane' = IF gameState # PLAYING THEN playerLane
                     ELSE IF leftHalf THEN ShiftLeft(playerLane)
                     ELSE ShiftRight(playerLane)
    /\ idle' = IF gameState = PLAYING THEN playerLane' = playerLane ELSE idle
    /\ LaneOnly

\* lines 349-353
handleResize ==
  /\ innerHeight' \in Heights \ {innerHeight}
  /\ UNCHANGED <<gameState, score, highScore, auraCount, isFlowState,
                 playerLane, isShaking, obstaclesRef, particlesRef, speedRef,
                 flowStateTimerRef, shakeTimerRef, strays, requestRef, loop,
                 effectDue, storage, endGameCalls>>
  /\ hits' = NoHits
  /\ UNCHANGED idle
  /\ UNCHANGED <<speedErr, frames>>

\* ---------------------------------------------------- time and timeouts
Elapse(rem) == IF rem = NoTimer THEN NoTimer ELSE Max(0, rem - TickMs)

\* TickMs of real time pass; a timeout never fires before its delay is over
Tick ==
  /\ \/ flowStateTimerRef > 0
     \/ shakeTimerRef > 0
     \/ \E t \in strays : t.rem > 0
  /\ flowStateTimerRef' = Elapse(flowStateTimerRef)
  /\ shakeTimerRef' = Elapse(shakeTimerRef)
  /\ strays' = {[t EXCEPT !.rem = Elapse(@)] : t \in strays}
  /\ UNCHANGED <<gameState, score, highScore, auraCount, isFlowState,
                 playerLane, isShaking, obstaclesRef, particlesRef, speedRef,
                 requestRef, loop, effectDue, storage, innerHeight,
                 endGameCalls>>
  /\ hits' = NoHits
  /\ UNCHANGED idle
  /\ UNCHANGED <<speedErr, frames>>

\* timeouts of callback cb whose delay is over: the ref's, and strays
Due(cb, ref) ==
  (IF ref = 0 THEN {"ref"} ELSE {})
    \cup {"stray" : t \in {u \in strays : u.cb = cb /\ u.rem = 0}}

\* lines 151-153: the expiry callback runs
FlowTimeout ==
  \E which \in Due("flow", flowStateTimerRef) :
    /\ isFlowState' = FALSE
    /\ flowStateTimerRef' = IF which = "ref" THEN NoTimer ELSE flowStateTimerRef
    /\ strays' = IF which = "stray" THEN strays \ {[cb |-> "flow", rem |-> 0]}
                 ELSE strays
    /\ UNCHANGED <<gameState, score, highScore, auraCount, playerLane,
                   isShaking, obstaclesRef, particlesRef, speedRef,
                   shakeTimerRef, requestRef, loop, effectDue, storage,
                   innerHeight, endGameCalls>>
    /\ hits' = NoHits
    /\ idle' = (isFlowState' = isFlowState)
    /\ UNCHANGED <<speedErr, frames>>

\* line 116: the un-shake callback runs
ShakeTimeout ==
  \E which \in Due("shake", shakeTimerRef) :
    /\ isShaking' = FALSE
    /\ shakeTimerRef' = IF which = "ref" THEN NoTimer ELSE shakeTimerRef
    /\ strays' = IF which = "stray" THEN strays \ {[cb |-> "shake", rem |-> 0]}
                 ELSE strays
    /\ UNCHANGED <<gameState, score, highScore, auraCount, isFlowState,
                   playerLane, obstaclesRef, particlesRef, speedRef,
                   flowStateTimerRef, requestRef, loop, effectDue, storage,
                   innerHeight, endGameCalls>>
    /\ hits' = NoHits
    /\ idle' = (isShaking' = isShaking)
    /\ UNCHANGED <<speedErr, frames>>

Next ==
  \/ startGame
  \/ Frame
  \/ FrameLoopEffect
  \/ BackToMenu
  \/ handleKeyDown
  \/ handleTouchStart
  \/ handleResize
  \/ Tick
  \/ ShakeTimeout

Spec == Init /\ [][Next]_vars

NextRun ==
  \/ startGame
  \/ FrameRun
  \/ FrameLoopEffect
  \/ BackToMenu
  \/ handleKeyDown
  \/ handleTouchStart
  \/ Tick
  \/ FlowTimeout
  \/ ShakeTimeout

SpecRun == Init /\ [][NextRun]_vars

\* ------------------------------------ a run observed from frame FallStart
\* y after frame n of an obstacle that line 166 spawned in frame k: it has
\* been advanced in frames k..n by the speeds INITIAL_SPEED + k .. + n
YAfter(k, n) ==
  SPAWN_Y * Milli + (n - k + 1) * INITIAL_SPEED
    + ((n * (n + 1) - (k - 1) * k) \div 2) * SPEED_INCREMENT

\* obstacles that can be alive after frame n: spawned in frame 1 or 2 in a
\* lane beside the player's (they have passed the player), or in frame n
\* in any lane, in spawn order
FallenObstacles(n) ==
  LET Old(k) == {[lane |-> l, y |-> YAfter(k, n), type |-> t] :
                    l \in {0, LANES - 1}, t \in ObstacleTypes}
  IN {<<>>} \cup {<<a>> : a \in Old(1)}
            \cup {<<a, b>> : a \in Old(1), b \in Old(2)}

\* the state FallStart frames into the first run of a session in which the
\* player has not moved, nothing has collided and no particle burst is left
InitFall ==
  /\ gameState = PLAYING
  /\ score = FallStart
  /\ storage \in InitialItems
  /\ highScore = LoadHighScore(storage)
  /\ auraCount = 0
  /\ isFlowState = FALSE
  /\ playerLane = 1
  /\ isShaking = FALSE
  /\ obstaclesRef \in {o \in FallenObstacles(FallStart) : Len(o) <= MaxObstacles}
  /\ particlesRef \in 0..MaxParticles
  /\ speedRef = INITIAL_SPEED + FallStart * SPEED_INCREMENT
  /\ speedErr = FallStart * AddIncrementErr
  /\ frames = FallStart
  /\ flowStateTimerRef = NoTimer
  /\ shakeTimerRef = NoTimer
  /\ strays = {}
  /\ requestRef = TRUE
  /\ loop = Closure(PLAYING, 0, highScore, FALSE, 1)
  /\ effectDue = FALSE
  /\ innerHeight \in Heights
  /\ endGameCalls = 0
  /\ hits = NoHits
  /\ idle = FALSE

\* frames FallStart + 1 .. FallStart + MaxFrames, obstacles in every lane
FrameFall == FrameOf(FallStart + MaxFrames, 0..(LANES - 1))

NextFall ==
  \/ FrameFall
  \/ FrameLoopEffect
  \/ handleKeyDown
  \/ handleResize
  \/ Tick
  \/ ShakeTimeout

SpecFall == InitFall /\ [][NextFall]_vars

\* -------------------------------------------- a run observed at high speed
\* the state n frames into the first run of a session in which the player
\* has not moved, nothing has collided and no obstacle is on screen
InitFast ==
  /\ frames \in {SlowStart, FastStart}
  /\ gameState = PLAYING
  /\ score = frames
  /\ storage \in InitialItems
  /\ highScore = LoadHighScore(storage)
  /\ auraCount = 0
  /\ isFlowState = FALSE
  /\ playerLane = 1
  /\ isShaking = FALSE
  /\ obstaclesRef = <<>>
  /\ particlesRef \in 0..MaxParticles
  /\ speedRef = INITIAL_SPEED + frames * SPEED_INCREMENT
  /\ speedErr = Untracked
  /\ flowStateTimerRef = NoTimer
  /\ shakeTimerRef = NoTimer
  /\ strays = {}
  /\ requestRef = TRUE
  /\ loop = Closure(PLAYING, 0, highScore, FALSE, 1)
  /\ effectDue = FALSE
  /\ innerHeight \in Heights
  /\ endGameCalls = 0
  /\ hits = NoHits
  /\ idle = FALSE

\* MaxFrames more frames from either starting point, obstacles in every lane
FrameFast ==
  IF frames < FastStart
  THEN FrameOf(SlowStart + MaxFrames, 0..(LANES - 1))
  ELSE FrameOf(FastStart + MaxFrames, 0..(LANES - 1))

NextFast ==
  \/ FrameFast
  \/ FrameLoopEffect
  \/ handleKeyDown
  \/ handleResize
  \/ Tick
  \/ ShakeTimeout

SpecFast == InitFast /\ [][NextFast]_vars

\* ------------------------------------------------------------ properties
\* a step that executes one frame: only update raises speedRef
FrameStep == speedRef' = speedRef + SPEED_INCREMENT

NoPendingTimers ==
  flowStateTimerRef = NoTimer /\ shakeTimerRef = NoTimer /\ strays = {}

NoneColliding(obs) ==
  \A i \in DOMAIN obs : ~Collides(obs[i], innerHeight)

\* C1: a frame that declares a Block collision while power mode is inactive
\* makes the state GAME_OVER, endGame having run exactly once in the run
\* (also with several Blocks in one frame); the state becomes PLAYING again
\* only by a start command, which begins a fresh run.
C1_FatalOnce ==
  [][ /\ (FrameStep /\ gameState = PLAYING /\ ~isFlowState /\ hits'.block > 0)
         => (gameState' = GAME_OVER /\ endGameCalls' = 1)
      /\ (gameState # PLAYING /\ gameState' = PLAYING)
         => (endGameCalls' = 0 /\ speedRef' = INITIAL_SPEED) ]_vars

\* C2: in a frame where a Block collides while power mode is active, the
\* Block is removed, the score gains 50 for it (and 1 for the frame), and
\* the state stays PLAYING.
C2_FlowBlock ==
  [][ (FrameStep /\ gameState = PLAYING /\ isFlowState /\ hits'.block > 0)
      => /\ gameState' = PLAYING
         /\ score' = score + 1 + FLOW_BONUS * hits'.block
         /\ NoneColliding(obstaclesRef') ]_vars

\* C3: the aura count is always between 0 and 10.
C3_AuraRange == auraCount \in 0..AURA_THRESHOLD

\* C4: a frame with one Aura collision and power mode inactive: from a count
\* of 9 it leaves power mode on and the count 0; from a smaller count it
\* raises the count by exactly 1 and removes the obstacle.
C4_AuraStep ==
  [][ (FrameStep /\ gameState = PLAYING /\ ~isFlowState
         /\ hits'.aura = 1 /\ hits'.block = 0)
      => /\ (auraCount = AURA_THRESHOLD - 1)
            => (isFlowState' /\ auraCount' = 0)
         /\ (auraCount < AURA_THRESHOLD - 1)
            => (auraCount' = auraCount + 1 /\ NoneColliding(obstaclesRef')) ]_vars

\* C5: a pending expiry countdown is given up only by firing (which turns
\* power mode off) or by being replaced at a new activation; no second
\* countdown is ever pending; and power mode is turned off within a run
\* only by a countdown whose full delay has passed.
C5_Countdown ==
  [][ /\ (flowStateTimerRef # NoTimer)
         => \/ flowStateTimerRef' # NoTimer
            \/ (flowStateTimerRef = 0 /\ ~isFlowState')
      /\ \A t \in strays' : t.cb # "flow"
      /\ (isFlowState /\ ~isFlowState' /\ gameState' = gameState)
         => flowStateTimerRef = 0 ]_vars

\* C6: outside PLAYING no frame executes, and speed, score, aura count,
\* obstacles and particles stay as they are until a run is started.
C6_Halted ==
  [][ (gameState # PLAYING)
      => /\ ~FrameStep
         /\ (gameState' # PLAYING)
            => UNCHANGED <<speedRef, score, auraCount, obstaclesRef,
                           particlesRef>> ]_vars

\* C7: when a run ends no timeout is left pending, and none is pending when
\* the next run starts.
C7_TimersCleared ==
  [][ /\ (gameState = PLAYING /\ gameState' = GAME_OVER) => NoPendingTimers'
      /\ (gameState # PLAYING /\ gameState' = PLAYING) => NoPendingTimers' ]_vars

\* C8: at the end of a run, highScore and storage take the run's score if
\* and only if it strictly exceeds the stored high score.
C8_HighScoreWrite ==
  [][ (gameState = PLAYING /\ gameState' = GAME_OVER)
      => IF Gt(score, highScore)
         THEN highScore' = score /\ storage' = Item(NumToString(score))
         ELSE UNCHANGED <<highScore, storage>> ]_vars

\* C9: a start command from MENU or GAME_OVER leads to PLAYING with score 0,
\* aura count 0, power mode off, lane 1, the initial speed, and no obstacles
\* or particles, whatever the previous run left.
C9_StartResets ==
  [][ (gameState \in {MENU, GAME_OVER} /\ gameState' = PLAYING)
      => /\ score' = 0
         /\ auraCount' = 0
         /\ ~isFlowState'
         /\ playerLane' = 1
         /\ speedRef' = INITIAL_SPEED
         /\ obstaclesRef' = <<>>
         /\ particlesRef' = 0 ]_vars

\* a run just restarted (no frame yet) while the 500 ms shake of a
\* power-mode activation of the previous run is still pending
C9_Witness ==
  /\ gameState = PLAYING
  /\ speedRef = INITIAL_SPEED
  /\ shakeTimerRef = SHAKE_FLOW
  /\ score = 0 /\ auraCount = 0 /\ ~isFlowState /\ playerLane = 1
  /\ obstaclesRef = <<>> /\ particlesRef = 0

\* C10: the player lane is always 0, 1 or 2; shifts keep it there, and a
\* shift at a boundary leaves it unchanged.
C10_LaneInRange ==
  /\ playerLane \in 0..(LANES - 1)
  /\ ShiftLeft(playerLane) \in 0..(LANES - 1)
  /\ ShiftRight(playerLane) \in 0..(LANES - 1)
  /\ (playerLane = 0) => (ShiftLeft(playerLane) = playerLane)
  /\ (playerLane = LANES - 1) => (ShiftRight(playerLane) = playerLane)

\* the player stands at the right boundary during a run
C10_Witness == gameState = PLAYING /\ playerLane = LANES - 1

\* C11: a shift changes the lane only while PLAYING (outside PLAYING the lane
\* changes only by a start, which centres it); and while a run is in
\* progress the lane the next frame's collision test uses is the player's
\* lane.
C11_ShiftTakesEffect ==
  [][ /\ (gameState # PLAYING /\ gameState' # PLAYING)
         => playerLane' = playerLane
      /\ (gameState' = PLAYING /\ requestRef')
         => CollisionLane' = playerLane' ]_vars

\* C12: activateFlowState is never invoked while power mode is active: not
\* in a frame that starts with the power-mode flag set, and not a second time
\* in the frame that has just activated it.
C12_ActivateOnlyInactive ==
  [][ FrameStep => /\ hits'.acts <= 1
                   /\ isFlowState => hits'.acts = 0 ]_vars

\* C13 as stated: after N executed frames of a run (frames counts them from
\* 0 at the run's start) the speed equals the initial speed plus N times the
\* increment; so it never decreases during a run and is the initial speed
\* at every run start.
C13_SpeedExact ==
  /\ speedRef = INITIAL_SPEED + frames * SPEED_INCREMENT
  /\ speedErr = ClosedFormErr(frames)

\* C13 amended: after N executed frames the speed is the initial speed plus
\* N times the increment up to floating-point rounding (at most N units in
\* the last place, and exactly the initial speed for N = 0); it never
\* decreases during a run and is the initial speed at every run start.
C13_SpeedLaw ==
  /\ speedRef = INITIAL_SPEED + frames * SPEED_INCREMENT
  /\ Abs(speedErr - ClosedFormErr(frames)) <= frames * UlpParts

\* a run restarted after an earlier one, with frames executed in it
C13_Witness ==
  /\ gameState = PLAYING
  /\ frames >= 2
  /\ speedErr # ClosedFormErr(frames)
  /\ endGameCalls = 0
  /\ storage = Item(<<"0">>)

\* C14: the high score is always a number (never NaN), and it is 0 as long
\* as the stored entry is absent or is not the text of an integer.
C14_HighScoreLoaded ==
  /\ highScore # NaN
  /\ (~storage.has \/ storage.text = <<>> \/ ParseInt(storage.text) = NaN)
     => highScore = 0

\* C15: the score is never negative; a frame executed while PLAYING raises
\* it by exactly 1, plus 50 for each Block that collides in that frame with
\* power mode active; no other step of a run in progress changes it.
C15_ScoreSteps ==
  [][ /\ score' >= 0
      /\ (gameState = PLAYING /\ FrameStep)
         => score' = score + 1
                       + FLOW_BONUS * (IF isFlowState THEN hits'.block ELSE 0)
      /\ (gameState = PLAYING /\ gameState' = PLAYING /\ ~FrameStep)
         => score' = score ]_vars

\* the list the filter leaves: src advanced by speed v, without the
\* obstacles that collide and those at or beyond the viewport height + 100
PassOf(src, v) ==
  SelectSeq([i \in DOMAIN src |-> [src[i] EXCEPT !.y = @ + v]],
            LAMBDA o : /\ ~Collides(o, innerHeight)
                       /\ o.y < (innerHeight + DESPAWN_MARGIN) * Milli)

\* C16: after every frame the obstacle list holds no obstacle that collides
\* with the player and none at or beyond the viewport height plus 100; it
\* is the previous list (with the obstacle spawned in this frame, if any),
\* every obstacle advanced by the frame's fall speed, less exactly those.
C16_ObstaclePass ==
  [][ FrameStep
      => /\ NoneColliding(obstaclesRef')
         /\ \A i \in DOMAIN obstaclesRef' :
               obstaclesRef'[i].y < (innerHeight + DESPAWN_MARGIN) * Milli
         /\ \E src \in {obstaclesRef}
                         \cup {Spawned(obstaclesRef, l, t) :
                                 l \in 0..(LANES - 1), t \in ObstacleTypes} :
               obstaclesRef' = PassOf(src, speedRef') ]_vars

\* the obstacle spawned in frame 1 has been dropped for being past the
\* viewport, and the one spawned in frame 2, just above that line, is kept
C16_Witness ==
  /\ frames > FallStart
  /\ Len(obstaclesRef) = 1
  /\ obstaclesRef[1].y = YAfter(2, frames)

\* C17: whenever the power-mode flag is true, an expiry countdown is pending.
C17_FlowHasCountdown ==
  isFlowState => \/ flowStateTimerRef # NoTimer
                 \/ \E t \in strays : t.cb = "flow"

\* C18: in GAME_OVER the score (which includes every increment of the fatal
\* frame) does not exceed the high score.
C18_HighScoreCoversScore ==
  (gameState = GAME_OVER) => ~Gt(score, highScore)

\* C19: a frame callback is pending only while the state is PLAYING.  (That
\* at most one is pending is how requestRef is represented: every request
\* in the code follows the run or the cancellation of the previous one.)
C19_FramePendingOnlyPlaying ==
  requestRef => gameState = PLAYING

\* obstacles the frame kept in the collision lane although it carried them
\* across the upper edge of the player's band (vertical distance 45)
TopCrossers ==
  LET reach == ((PLAYER_SIZE + OBSTACLE_SIZE) * Milli) \div 2
      top == (innerHeight - PLAYER_OFFSET) * Milli - reach
  IN {i \in DOMAIN obstaclesRef' :
        /\ obstaclesRef'[i].lane = CollisionLane
        /\ obstaclesRef'[i].y - speedRef' <= top
        /\ obstaclesRef'[i].y > top}

====
